---- MODULE Spec2Model ----
(***************************************************************************)
(* Joistor: a schema-validated state container with bounded undo/redo.     *)
(* The model follows joistor.js (src/unnamed/part_001, lines 1-323).       *)
(*                                                                         *)
(* A JavaScript value is a function from Paths to tokens: the token at     *)
(* <<>> is the value itself ("OBJ" for a container), the token at <<k>>    *)
(* is what the container holds under key k ("ABSENT" when it has no such   *)
(* key), and the token at <<"sequence", "0">> is the first element of the  *)
(* array held under key sequence.  The state object is a record of its own *)
(* keys in insertion order and the value under each field name.            *)
(***************************************************************************)
EXTENDS Integers, Sequences, FiniteSets, TLC

VARIABLES opts, updateHistory, schema, state, history, last, ops, track,
          onRegisterCallbacks, onUnregisterCallbacks, onChangeCallbacks,
          onErrorCallbacks, calls

callbackTables ==
    <<onRegisterCallbacks, onUnregisterCallbacks, onChangeCallbacks, onErrorCallbacks>>

vars == <<opts, updateHistory, schema, state, history, last, ops, track,
          callbackTables, calls>>

\* ------------------------------------------------------------------ bounds
MaxBuffer == 2
MaxOps == 5
MaxLawOps == 7
MaxFifoOps == 6
MaxDefaultOps == 23
MaxNotifyOps == 3
MaxSubscriptions == 3
MaxRoundOps == 5
MaxDepthOps == 4
MaxReportOps == 3
MaxReportSubscriptions == 2
MaxReentrantOps == 5
MaxReentrantSubscriptions == 2

\* ------------------------------------------------------------------ values
Fields == {"system", "workspace"}
Keys == {"id", "name"}
\* sequence is the array of the workspace schema, "0" its first index
Sequence == <<"sequence">>
Slot == <<"sequence", "0">>
Paths == {<<>>} \cup {<<k>> : k \in Keys} \cup {Sequence, Slot}

Scalars == {"undefined", "0", "1", "test"}
Tokens == Scalars \cup {"OBJ", "ABSENT", "null"}

NoRule == "none"
Rules == {"number", "object"}

Scalar(t) == [p \in Paths |-> IF p = <<>> THEN t ELSE "ABSENT"]
Obj(id, name) ==
    [p \in Paths |-> IF p = <<>> THEN "OBJ"
                     ELSE IF p = <<"id">> THEN id
                     ELSE IF p = <<"name">> THEN name
                     ELSE "ABSENT"]
\* { id, name, sequence: [first] }; the array is empty when first is "ABSENT"
ObjSeq(id, name, first) ==
    [p \in Paths |-> IF p = Sequence THEN "OBJ"
                     ELSE IF p = Slot THEN first
                     ELSE Obj(id, name)[p]]
Missing == Scalar("ABSENT")

\* reading a key that is not there gives undefined
Read(t) == IF t = "ABSENT" THEN "undefined" ELSE t

IsPrefix(p, q) == Len(p) <= Len(q) /\ SubSeq(q, 1, Len(p)) = p
Suffix(p, q) == SubSeq(q, Len(p) + 1, Len(q))

\* the value found at path p of value v (Missing when there is none)
SubValue(v, p) ==
    [q \in Paths |-> IF p \o q \in Paths THEN v[p \o q] ELSE "ABSENT"]

\* value v with the value at path p replaced by w
WithSubValue(v, p, w) ==
    [q \in Paths |-> IF IsPrefix(p, q) THEN w[Suffix(p, q)] ELSE v[q]]

\* ------------------------------------------------------------ state object
EmptyState == [keys |-> <<>>, val |-> [f \in Fields |-> Missing]]

Range(s) == {s[i] : i \in 1..Len(s)}
Has(st, f) == f \in Range(st.keys)
KeySet(st) == Range(st.keys)

\* obj[prop]
Get(st, f) == st.val[f]

\* an assignment that replaces the object by one holding only prop
Put_Alone(st, f, v) ==
    [keys |-> <<f>>, val |-> [g \in Fields |-> IF g = f THEN v ELSE Missing]]

\* obj[prop] = value
Put(st, f, v) ==
    [keys |-> IF Has(st, f) THEN st.keys ELSE Append(st.keys, f),
     val |-> [st.val EXCEPT ![f] = v]]

\* delete obj[prop]
Delete(st, f) ==
    [keys |-> SelectSeq(st.keys, LAMBDA g : g # f),
     val |-> [st.val EXCEPT ![f] = Missing]]

\* if (oldValue): undefined, 0 and a missing key are falsy
Truthy(v) == v[<<>>] \notin {"ABSENT", "undefined", "0"}

\* JSON.parse(JSON.stringify(value)): a key that holds undefined is dropped,
\* an array element that is undefined becomes null
JsonValue(v) ==
    [p \in Paths |-> IF v[p] # "undefined" THEN v[p]
                     ELSE IF p = Slot THEN "null"
                     ELSE "ABSENT"]

\* JSON.parse(JSON.stringify(state))
JsonCopy(st) ==
    [keys |-> SelectSeq(st.keys, LAMBDA f : st.val[f][<<>>] # "undefined"),
     val |-> [f \in Fields |->
                 IF st.val[f][<<>>] = "undefined" THEN Missing ELSE JsonValue(st.val[f])]]

\* ------------------------------------------------------------------ rules
\* The rules are Joi schemas.  "number" is Joi.number() and "object" is
\* Joi.object({ id: Joi.number(), name: Joi.string(),
\*              sequence: Joi.array().items(Joi.number()) }); a value that is
\* undefined passes any rule that is not required().  On the tokens used here
\* schema.validate and schema.strict().validate agree (opts.strict only
\* matters for values Joi would convert, such as the string "1" for a number).
NumberOk(t) == t \in {"undefined", "0", "1"}

StringOk(t) == t \in {"undefined", "test"}

\* Joi.array().items(Joi.number()) on the value at key sequence: an array
\* that is empty or holds a number (an undefined element is sparse: an error)
ArrayOk(v) ==
    \/ Read(v[Sequence]) = "undefined"
    \/ v[Sequence] = "OBJ" /\ v[Slot] \in {"ABSENT", "0", "1"}

\* schema[field].validate(value) has no error
RuleAccepts(rule, v) ==
    IF rule = "number" THEN NumberOk(v[<<>>])
    ELSE \/ v[<<>>] = "undefined"
         \/ /\ v[<<>>] = "OBJ"
            /\ NumberOk(Read(v[<<"id">>]))
            /\ StringOk(Read(v[<<"name">>]))
            /\ ArrayOk(v)

\* the value a read of obj[prop] yields
ReadValue(v) == IF v[<<>>] = "ABSENT" THEN Scalar("undefined") ELSE v

\* ---------------------------------------------------------------- history
\* history.undo.length > opts.historyBuffer (false when historyBuffer is undefined)
Exceeds(len) == opts.hasBuffer /\ len > opts.historyBuffer

\* M is the mutable part of the closure: [state, history, updateHistory],
\* with the callback invocations made so far by the running operation and
\* whether an error thrown inside a callback is on its way to the caller
Store(st, h, u) ==
    [state |-> st, history |-> h, updateHistory |-> u, calls |-> <<>>, threw |-> FALSE]

\* addUndo without the shift that evicts the oldest entry
addUndo_NoEvict(M, undoObj) ==
    IF ~M.updateHistory THEN M
    ELSE [M EXCEPT !.history.undo = Append(M.history.undo, undoObj)]

addUndo(M, undoObj) ==
    IF ~M.updateHistory THEN M
    ELSE LET pushed == Append(M.history.undo, undoObj)
         IN [M EXCEPT !.history.undo = IF Exceeds(Len(pushed)) THEN Tail(pushed) ELSE pushed]

addRedo(M, redoObj) ==
    IF ~M.updateHistory THEN M
    ELSE LET pushed == Append(M.history.redo, redoObj)
         IN [M EXCEPT !.history.redo = IF Exceeds(Len(pushed)) THEN Tail(pushed) ELSE pushed]

\* clearRedo leaving the redo ledger as it is
clearRedo_Keep(M) == M

clearRedo(M) ==
    IF ~M.updateHistory THEN M ELSE [M EXCEPT !.history.redo = <<>>]

\* ---------------------------------------------------------------- callbacks
\* A call records which callback ran, the field name and key it was passed,
\* and the state and schema it finds.  The callbacks a and b are observers.
Callbacks == {"a", "b"}
\* callbacks that write through the state they are passed:
\* (state) => { state.workspace = 1 } and (state) => { state.workspace = "test" }
Writers == {"one", "text"}
WriterField == "workspace"
WriterValue(callback) == IF callback = "one" THEN Scalar("1") ELSE Scalar("test")
\* the logger that Joistor() installs as the first error callback
Logger == "log"
\* the paths given to onChange: field names and names of keys inside fields
Names == Fields \cup Keys \cup {"sequence", "0"}

Call(kind, callback, field, prop, M, sch) ==
    [kind |-> kind, callback |-> callback, field |-> field, prop |-> prop,
     state |-> M.state, schema |-> sch]

RECURSIVE stateRegisterProxySetter(_, _, _, _)

\* callbacks.forEach(...) from the i-th callback on: each call is appended to
\* those already made, a callback that writes enters the setter, and an error
\* thrown by that write ends the loop
RECURSIVE forEachFrom(_, _, _, _, _, _, _)
forEachFrom(M, callbacks, i, kind, field, prop, sch) ==
    IF i > Len(callbacks) \/ M.threw THEN M
    ELSE LET called == [M EXCEPT !.calls =
                           Append(@, Call(kind, callbacks[i], field, prop, M, sch))]
             returned ==
                 IF callbacks[i] \notin Writers THEN called
                 ELSE LET r == stateRegisterProxySetter(called, sch, WriterField,
                                                        WriterValue(callbacks[i]))
                      IN [r.M EXCEPT !.threw = (r.verdict = "threw")]
         IN forEachFrom(returned, callbacks, i + 1, kind, field, prop, sch)

\* observers all find the state the loop started with
forEach(M, callbacks, kind, field, prop, sch) ==
    IF callbacks = <<>> THEN M
    ELSE IF \A i \in 1..Len(callbacks) : callbacks[i] \notin Writers
    THEN [M EXCEPT !.calls =
            @ \o [i \in 1..Len(callbacks) |-> Call(kind, callbacks[i], field, prop, M, sch)]]
    ELSE forEachFrom(M, callbacks, 1, kind, field, prop, sch)

executeRegisterCallbacks(M, sch) ==
    forEach(M, onRegisterCallbacks, "register", "-", "-", sch)

executeUnregisterCallbacks(M, sch) ==
    forEach(M, onUnregisterCallbacks, "unregister", "-", "-", sch)

\* executeChangeCallbacks in reverse order of subscription
executeChangeCallbacks_Reversed(M, sch, baseProp, prop) ==
    LET cbs == onChangeCallbacks[baseProp]
    IN forEach(M, [i \in 1..Len(cbs) |-> cbs[Len(cbs) + 1 - i]], "change", baseProp, prop, sch)

\* prop is "undefined" when the caller passes no second argument
executeChangeCallbacks(M, sch, baseProp, prop) ==
    forEach(M, onChangeCallbacks[baseProp], "change", baseProp, prop, sch)

executeValidationErrorCallbacks(M, sch) ==
    forEach(M, onErrorCallbacks, "error", "-", "-", sch)

\* -------------------------------------------------------------- validation
\* validate returning the error without calling the error callbacks
validate_Quiet(M, sch, field) ==
    IF sch[field] = NoRule THEN [M |-> M, valid |-> "noschema"]
    ELSE IF RuleAccepts(sch[field], ReadValue(Get(M.state, field)))
    THEN [M |-> M, valid |-> "ok"]
    ELSE [M |-> M, valid |-> "error"]

\* validate(obj, field), obj being M.state: valid is "noschema" (returns
\* undefined), "error" or "ok"
validate(M, sch, field) ==
    IF sch[field] = NoRule THEN [M |-> M, valid |-> "noschema"]
    ELSE IF RuleAccepts(sch[field], ReadValue(Get(M.state, field)))
    THEN [M |-> M, valid |-> "ok"]
    ELSE [M |-> executeValidationErrorCallbacks(M, sch), valid |-> "error"]

\* ------------------------------------------------------------------ setters
\* stateRegisterProxySetter calling the change callbacks before it validates
stateRegisterProxySetter_NotifyFirst(M, sch, prop, value) ==
    LET undoObj == JsonCopy(M.state)
        oldValue == Get(M.state, prop)
        written == [M EXCEPT !.state = Put(M.state, prop, value)]
        v == validate(executeChangeCallbacks(written, sch, prop, "undefined"), sch, prop)
    IN  IF v.valid = "noschema"
        THEN [M |-> v.M, verdict |-> "threw"]
        ELSE IF v.valid = "error"
        THEN [M |-> [v.M EXCEPT !.state = IF Truthy(oldValue)
                                           THEN Put(@, prop, oldValue)
                                           ELSE Delete(@, prop)],
              verdict |-> "rejected"]
        ELSE [M |-> clearRedo(addUndo(v.M, undoObj)), verdict |-> "accepted"]

\* stateRegisterProxySetter reverting a rejected write before the error
\* callbacks are called
stateRegisterProxySetter_RevertFirst(M, sch, prop, value) ==
    LET undoObj == JsonCopy(M.state)
        oldValue == Get(M.state, prop)
        written == [M EXCEPT !.state = Put(M.state, prop, value)]
        v == validate_Quiet(written, sch, prop)
    IN  IF v.valid = "noschema"
        THEN [M |-> v.M, verdict |-> "threw"]
        ELSE IF v.valid = "error"
        THEN [M |-> executeValidationErrorCallbacks(
                        [v.M EXCEPT !.state = IF Truthy(oldValue)
                                              THEN Put(@, prop, oldValue)
                                              ELSE Delete(@, prop)], sch),
              verdict |-> "rejected"]
        ELSE [M |-> executeChangeCallbacks(clearRedo(addUndo(v.M, undoObj)),
                                           sch, prop, "undefined"),
              verdict |-> "accepted"]

\* state[prop] = value
stateRegisterProxySetter(M, sch, prop, value) ==
    LET undoObj == JsonCopy(M.state)
        oldValue == Get(M.state, prop)
        written == [M EXCEPT !.state = Put(M.state, prop, value)]
        v == validate(written, sch, prop)
        notified == executeChangeCallbacks(clearRedo(addUndo(v.M, undoObj)),
                                           sch, prop, "undefined")
    IN  IF v.valid = "noschema"
        THEN \* destructuring the undefined result throws; the write stays
             [M |-> v.M, verdict |-> "threw"]
        ELSE IF v.M.threw
        THEN \* an error callback threw: validate does not return
             [M |-> v.M, verdict |-> "threw"]
        ELSE IF v.valid = "error"
        THEN [M |-> [v.M EXCEPT !.state = IF Truthy(oldValue)
                                           THEN Put(@, prop, oldValue)
                                           ELSE Delete(@, prop)],
              verdict |-> "rejected"]
        ELSE [M |-> notified, verdict |-> IF notified.threw THEN "threw" ELSE "accepted"]

\* stateFieldProxySetter validating and notifying under the first key of the
\* location written instead of the field
stateFieldProxySetter_ByKey(M, sch, baseProp, path, prop, value) ==
    LET undoObj == JsonCopy(M.state)
        field == Get(M.state, baseProp)
        at == Append(path, prop)
        oldValue == SubValue(field, at)
        written == [M EXCEPT !.state = Put(M.state, baseProp, WithSubValue(field, at, value))]
        v == validate(written, sch, baseProp)
    IN  IF v.valid = "noschema"
        THEN [M |-> v.M, verdict |-> "threw"]
        ELSE IF v.valid = "error"
        THEN [M |-> [v.M EXCEPT !.state =
                        Put(@, baseProp, WithSubValue(field, at, ReadValue(oldValue)))],
              verdict |-> "rejected"]
        ELSE [M |-> executeChangeCallbacks(clearRedo(addUndo(v.M, undoObj)),
                                           sch, Head(at), prop),
              verdict |-> "accepted"]

\* stateFieldProxySetter validating the field as it is before the write
stateFieldProxySetter_ValidateBefore(M, sch, baseProp, path, prop, value) ==
    LET undoObj == JsonCopy(M.state)
        field == Get(M.state, baseProp)
        at == Append(path, prop)
        written == [M EXCEPT !.state = Put(M.state, baseProp, WithSubValue(field, at, value))]
        v == validate(M, sch, baseProp)
    IN  IF v.valid = "noschema"
        THEN [M |-> written, verdict |-> "threw"]
        ELSE IF v.valid = "error"
        THEN [M |-> v.M, verdict |-> "rejected"]
        ELSE [M |-> executeChangeCallbacks(clearRedo(addUndo(written, undoObj)),
                                           sch, baseProp, prop),
              verdict |-> "accepted"]

\* stateFieldProxySetter recording history before it validates
stateFieldProxySetter_RecordFirst(M, sch, baseProp, path, prop, value) ==
    LET undoObj == JsonCopy(M.state)
        field == Get(M.state, baseProp)
        at == Append(path, prop)
        oldValue == SubValue(field, at)
        written == [M EXCEPT !.state = Put(M.state, baseProp, WithSubValue(field, at, value))]
        v == validate(written, sch, baseProp)
        recorded == clearRedo(addUndo(v.M, undoObj))
    IN  IF v.valid = "noschema"
        THEN [M |-> v.M, verdict |-> "threw"]
        ELSE IF v.valid = "error"
        THEN [M |-> [recorded EXCEPT !.state =
                        Put(@, baseProp, WithSubValue(field, at, ReadValue(oldValue)))],
              verdict |-> "rejected"]
        ELSE [M |-> executeChangeCallbacks(recorded, sch, baseProp, prop),
              verdict |-> "accepted"]

\* state[baseProp]...[prop] = value, where path leads to the container written
stateFieldProxySetter(M, sch, baseProp, path, prop, value) ==
    LET undoObj == JsonCopy(M.state)
        field == Get(M.state, baseProp)
        at == Append(path, prop)
        oldValue == SubValue(field, at)
        written == [M EXCEPT !.state = Put(M.state, baseProp, WithSubValue(field, at, value))]
        v == validate(written, sch, baseProp)
        notified == executeChangeCallbacks(clearRedo(addUndo(v.M, undoObj)),
                                           sch, baseProp, prop)
    IN  IF v.valid = "noschema" \/ v.M.threw
        THEN [M |-> v.M, verdict |-> "threw"]
        ELSE IF v.valid = "error"
        THEN [M |-> [v.M EXCEPT !.state =
                        Put(@, baseProp, WithSubValue(field, at, ReadValue(oldValue)))],
              verdict |-> "rejected"]
        ELSE [M |-> notified, verdict |-> IF notified.threw THEN "threw" ELSE "accepted"]

\* newStateFields.forEach(...), from the i-th field on
RECURSIVE restoreFields(_, _, _, _)
restoreFields(M, sch, newState, i) ==
    IF i > Len(newState.keys)
    THEN [M |-> [M EXCEPT !.updateHistory = TRUE], verdict |-> "done"]
    ELSE LET field == newState.keys[i]
             r == stateRegisterProxySetter([M EXCEPT !.updateHistory = FALSE], sch,
                                           field, newState.val[field])
         IN IF r.verdict = "threw" THEN r ELSE restoreFields(r.M, sch, newState, i + 1)

updateUndoRedoState(M, sch, newState) ==
    IF ~(KeySet(M.state) \subseteq KeySet(newState))
    THEN [M |-> M, verdict |-> "mismatch"]
    ELSE restoreFields(M, sch, newState, 1)

\* ----------------------------------------------------------------- inputs
\* register(schemaObj, stateObj) calls: <<field, rule, default value>>
Registrations ==
    {<<"system", "object", Obj("0", "ABSENT")>>,
     <<"system", "number", Scalar("0")>>,
     <<"system", "number", Obj("0", "ABSENT")>>,
     <<"workspace", "number", Scalar("0")>>,
     <<"workspace", "number", Scalar("test")>>}
TopValues == {Scalar("0"), Scalar("1"), Scalar("undefined"), Obj("1", "test")}
NestedTokens == {"1", "test", "undefined"}

\* ---------------------------------------------------------------- actions
\* last records the operation just completed: which one, on which field, how
\* it ended, and the lengths of the two ledgers when it was called.
Done(M, op, f, verdict) ==
    /\ state' = M.state
    /\ history' = M.history
    /\ updateHistory' = M.updateHistory
    /\ last' = [op |-> op, field |-> f, verdict |-> verdict,
                undoLen |-> Len(history.undo), redoLen |-> Len(history.redo)]
    /\ calls' = M.calls
    /\ ops' = ops + 1
    /\ UNCHANGED <<opts, callbackTables>>

Here == Store(state, history, updateHistory)

\* register leaving updateHistory as it finds it
register_Recording(f, rule, v) ==
    LET sch == [schema EXCEPT ![f] = rule]
        r == stateRegisterProxySetter(Here, sch, f, v)
    IN  /\ schema' = sch
        /\ Done(executeRegisterCallbacks([r.M EXCEPT !.updateHistory = TRUE], sch),
                "register", f, r.verdict)

\* register running the register callbacks before it assigns the default
register_CallbacksFirst(f, rule, v) ==
    LET sch == [schema EXCEPT ![f] = rule]
        called == executeRegisterCallbacks([Here EXCEPT !.updateHistory = FALSE], sch)
        r == stateRegisterProxySetter(called, sch, f, v)
    IN  /\ schema' = sch
        /\ Done([r.M EXCEPT !.updateHistory = TRUE], "register", f, r.verdict)

\* an error thrown while the default is assigned leaves register before
\* updateHistory = true
register(f, rule, v) ==
    LET sch == [schema EXCEPT ![f] = rule]
        r == stateRegisterProxySetter([Here EXCEPT !.updateHistory = FALSE], sch, f, v)
        called == executeRegisterCallbacks([r.M EXCEPT !.updateHistory = TRUE], sch)
    IN  /\ schema' = sch
        /\ IF r.verdict = "threw" THEN Done(r.M, "register", f, "threw")
           ELSE Done(called, "register", f, IF called.threw THEN "threw" ELSE r.verdict)

\* unregister deleting the rule and leaving the value
unregister_RuleOnly(f) ==
    LET sch == [schema EXCEPT ![f] = NoRule]
    IN  /\ schema' = sch
        /\ Done(executeUnregisterCallbacks(Here, sch), "unregister", f, "done")

unregister(f) ==
    LET sch == [schema EXCEPT ![f] = NoRule]
        called == executeUnregisterCallbacks([Here EXCEPT !.state = Delete(state, f)], sch)
    IN  /\ schema' = sch
        /\ Done(called, "unregister", f, IF called.threw THEN "threw" ELSE "done")

\* state[f] = v
write(f, v) ==
    LET r == stateRegisterProxySetter(Here, schema, f, v)
    IN  /\ UNCHANGED schema
        /\ Done(r.M, "write", f, r.verdict)

\* state[f][k] = t: reading state[f] must yield a container
writeNested(f, k, t) ==
    /\ UNCHANGED schema
    /\ IF Has(state, f) /\ Get(state, f)[<<>>] = "OBJ"
       THEN LET r == stateFieldProxySetter(Here, schema, f, <<>>, k, Scalar(t))
            IN Done(r.M, "writeNested", f, r.verdict)
       ELSE Done(Here, "writeNested", f, "nocontainer")

\* state[f]...[k] = t below the containers on path: reading each of them
\* must yield a container
writeDeep(f, path, k, t) ==
    /\ UNCHANGED schema
    /\ IF Has(state, f) /\ \A i \in 0..Len(path) : Get(state, f)[SubSeq(path, 1, i)] = "OBJ"
       THEN LET r == stateFieldProxySetter(Here, schema, f, path, k, Scalar(t))
            IN Done(r.M, "writeDeep", f, r.verdict)
       ELSE Done(Here, "writeDeep", f, "nocontainer")

\* undo without the return on an empty ledger: the current state is pushed
\* for redo and reading the keys of the missing entry throws
undo_Unguarded ==
    /\ UNCHANGED schema
    /\ IF Len(history.undo) = 0
       THEN Done(addRedo(Here, JsonCopy(state)), "undo", "-", "threw")
       ELSE LET redoObj == JsonCopy(state)
                prevState == history.undo[Len(history.undo)]
                popped == [Here EXCEPT !.history.undo = SubSeq(@, 1, Len(@) - 1)]
                r == updateUndoRedoState(addRedo(popped, redoObj), schema, prevState)
            IN Done(r.M, "undo", "-", r.verdict)

undo ==
    /\ UNCHANGED schema
    /\ IF Len(history.undo) = 0 THEN Done(Here, "undo", "-", "noop")
       ELSE LET redoObj == JsonCopy(state)
                prevState == history.undo[Len(history.undo)]
                popped == [Here EXCEPT !.history.undo = SubSeq(@, 1, Len(@) - 1)]
                r == updateUndoRedoState(addRedo(popped, redoObj), schema, prevState)
            IN Done(r.M, "undo", "-", r.verdict)

redo ==
    /\ UNCHANGED schema
    /\ IF Len(history.redo) = 0 THEN Done(Here, "redo", "-", "noop")
       ELSE LET undoObj == JsonCopy(state)
                nextState == history.redo[Len(history.redo)]
                popped == [Here EXCEPT !.history.redo = SubSeq(@, 1, Len(@) - 1)]
                r == updateUndoRedoState(addUndo(popped, undoObj), schema, nextState)
            IN Done(r.M, "redo", "-", r.verdict)

\* ------------------------------------------------------------ subscribing
\* a subscription is recorded in last like any other call; it runs no callback
Subscribed(op, path) ==
    /\ last' = [op |-> op, field |-> path, verdict |-> "done",
                undoLen |-> Len(history.undo), redoLen |-> Len(history.redo)]
    /\ calls' = <<>>
    /\ UNCHANGED <<opts, updateHistory, schema, state, history, ops>>

onRegister(callback) ==
    /\ onRegisterCallbacks' = Append(onRegisterCallbacks, callback)
    /\ UNCHANGED <<onUnregisterCallbacks, onChangeCallbacks, onErrorCallbacks>>
    /\ Subscribed("onRegister", "-")

onUnregister(callback) ==
    /\ onUnregisterCallbacks' = Append(onUnregisterCallbacks, callback)
    /\ UNCHANGED <<onRegisterCallbacks, onChangeCallbacks, onErrorCallbacks>>
    /\ Subscribed("onUnregister", "-")

onChange(path, callback) ==
    /\ onChangeCallbacks' = [onChangeCallbacks EXCEPT ![path] = Append(@, callback)]
    /\ UNCHANGED <<onRegisterCallbacks, onUnregisterCallbacks, onErrorCallbacks>>
    /\ Subscribed("onChange", path)

onError(callback) ==
    /\ onErrorCallbacks' = Append(onErrorCallbacks, callback)
    /\ UNCHANGED <<onRegisterCallbacks, onUnregisterCallbacks, onChangeCallbacks>>
    /\ Subscribed("onError", "-")

\* ----------------------------------------------------------- construction
\* function Joistor(opts = { historyBuffer: 20, strict: false, errorLog: true })
DefaultHistoryBuffer == 20

\* Joistor(): the default parameter applies
DefaultOpts == [hasBuffer |-> TRUE, historyBuffer |-> DefaultHistoryBuffer]

\* Joistor({ errorLog: false }): the argument replaces the default object
\* whole, so opts.historyBuffer is undefined
ErrorLogOnly == [hasBuffer |-> FALSE, historyBuffer |-> 0]

\* Joistor({ historyBuffer: n })
WithBuffer(n) == [hasBuffer |-> TRUE, historyBuffer |-> n]

\* the capacities stores are constructed with: the smallest and the largest
BufferSizes == {1, MaxBuffer}

Joistor(o) ==
    /\ opts = o
    /\ updateHistory = FALSE
    /\ schema = [f \in Fields |-> NoRule]
    /\ state = EmptyState
    /\ history = [undo |-> <<>>, redo |-> <<>>]
    /\ last = [op |-> "Joistor", field |-> "-", verdict |-> "done",
               undoLen |-> 0, redoLen |-> 0]
    /\ ops = 0
    /\ onRegisterCallbacks = <<>>
    /\ onUnregisterCallbacks = <<>>
    /\ onChangeCallbacks = [n \in Names |-> <<>>]
    /\ onErrorCallbacks = <<Logger>>
    /\ calls = <<>>

\* ------------------------------------------- Spec: any sequence of operations
Init ==
    /\ \E n \in BufferSizes : Joistor(WithBuffer(n))
    /\ track = <<>>

AnyRegister == \E r \in Registrations : register(r[1], r[2], r[3])
AnyUnregister == \E f \in Fields : unregister(f)
AnyWrite == \E f \in Fields, v \in TopValues : write(f, v)
AnyWriteNested == \E f \in Fields, k \in Keys, t \in NestedTokens : writeNested(f, k, t)

Register == ops < MaxOps /\ AnyRegister /\ UNCHANGED track
Unregister == ops < MaxOps /\ AnyUnregister /\ UNCHANGED track
Write == ops < MaxOps /\ AnyWrite /\ UNCHANGED track
WriteNested == ops < MaxOps /\ AnyWriteNested /\ UNCHANGED track
Undo == ops < MaxOps /\ undo /\ UNCHANGED track
Redo == ops < MaxOps /\ redo /\ UNCHANGED track

Next ==
    \/ Register
    \/ Unregister
    \/ Write
    \/ WriteNested
    \/ Undo
    \/ Redo

Spec == Init /\ [][Next]_vars

\* ------------------------- SpecNotify: operations on a store with callbacks
\* the number of subscriptions made so far
RECURSIVE Sum(_, _)
Sum(F, S) == IF S = {} THEN 0 ELSE LET x == CHOOSE y \in S : TRUE IN F[x] + Sum(F, S \ {x})
Subscriptions ==
    Len(onRegisterCallbacks) + Len(onUnregisterCallbacks) + (Len(onErrorCallbacks) - 1)
    + Sum([n \in Names |-> Len(onChangeCallbacks[n])], Names)

NotifyRegistrations ==
    {<<"system", "object", ObjSeq("0", "test", "0")>>,
     <<"system", "object", Scalar("test")>>,
     <<"workspace", "number", Scalar("0")>>}
NotifyWrites ==
    {<<"system", Obj("1", "test")>>, <<"system", Scalar("1")>>, <<"workspace", Scalar("1")>>}
NotifyTokens == {"1", "test"}
\* onChange(path, callback) calls: <<path, callback>>
NotifyChanges ==
    {<<"system", "a">>, <<"system", "b">>, <<"workspace", "a">>, <<"sequence", "b">>}

NotifyInit ==
    /\ Joistor(WithBuffer(MaxBuffer))
    /\ track = <<>>

CanSubscribe == Subscriptions < MaxSubscriptions /\ UNCHANGED track
CanOperate == ops < MaxNotifyOps /\ UNCHANGED track

NotifyOnChange == CanSubscribe /\ \E c \in NotifyChanges : onChange(c[1], c[2])
NotifyOnError == CanSubscribe /\ \E cb \in Callbacks : onError(cb)
NotifyRegister == CanOperate /\ \E r \in NotifyRegistrations : register(r[1], r[2], r[3])
NotifyUnregister == CanOperate /\ unregister("system")
NotifyWrite == CanOperate /\ \E w \in NotifyWrites : write(w[1], w[2])
NotifyWriteNested == CanOperate /\ \E t \in NotifyTokens : writeNested("system", "id", t)
NotifyWriteDeep == CanOperate /\ \E t \in NotifyTokens : writeDeep("system", Sequence, "0", t)
NotifyUndo == CanOperate /\ undo
NotifyRedo == CanOperate /\ redo

NotifyNext ==
    \/ NotifyOnChange
    \/ NotifyOnError
    \/ NotifyRegister
    \/ NotifyUnregister
    \/ NotifyWrite
    \/ NotifyWriteNested
    \/ NotifyWriteDeep
    \/ NotifyUndo
    \/ NotifyRedo

SpecNotify == NotifyInit /\ [][NotifyNext]_vars

\* ------------- SpecLifecycle: registering and unregistering with callbacks
LifecycleInit ==
    /\ Joistor(WithBuffer(MaxBuffer))
    /\ track = <<>>

LifecycleOnRegister == CanSubscribe /\ \E cb \in Callbacks : onRegister(cb)
LifecycleOnUnregister == CanSubscribe /\ \E cb \in Callbacks : onUnregister(cb)
LifecycleOnChange == CanSubscribe /\ onChange("system", "a")
LifecycleRegister == CanOperate /\ \E r \in NotifyRegistrations : register(r[1], r[2], r[3])
LifecycleUnregister == CanOperate /\ \E f \in Fields : unregister(f)
LifecycleWrite == CanOperate /\ \E w \in NotifyWrites : write(w[1], w[2])

LifecycleNext ==
    \/ LifecycleOnRegister
    \/ LifecycleOnUnregister
    \/ LifecycleOnChange
    \/ LifecycleRegister
    \/ LifecycleUnregister
    \/ LifecycleWrite

SpecLifecycle == LifecycleInit /\ [][LifecycleNext]_vars

\* ------------- SpecRound: register a field, write to it, unregister it
\* track follows one round: idle until some register(f, ...) opens it, open
\* while state[f] and keys of state[f] are written, closed by unregister(f).
\* It keeps the schema and state found when the round opened and the
\* verdicts of the writes made in the round.
RoundInit ==
    /\ \E n \in BufferSizes : Joistor(WithBuffer(n))
    /\ track = [phase |-> "idle", field |-> "-", schema |-> [f \in Fields |-> NoRule],
                state |-> EmptyState, verdicts |-> {}]

\* operations before the round, leaving room for its register and unregister
Before == track.phase = "idle" /\ ops < MaxRoundOps - 2 /\ UNCHANGED track
Within == track.phase = "open" /\ ops < MaxRoundOps - 1

BeforeRegister == Before /\ AnyRegister
BeforeUnregister == Before /\ AnyUnregister
BeforeWrite == Before /\ AnyWrite
BeforeWriteNested == Before /\ AnyWriteNested
BeforeUndo == Before /\ undo
BeforeRedo == Before /\ redo

RoundRegister ==
    /\ track.phase = "idle" /\ ops < MaxRoundOps - 1
    /\ \E r \in Registrations :
         /\ register(r[1], r[2], r[3])
         /\ track' = [phase |-> "open", field |-> r[1], schema |-> schema,
                      state |-> state, verdicts |-> {}]

RoundWrite ==
    /\ Within
    /\ \E v \in TopValues : write(track.field, v)
    /\ track' = [track EXCEPT !.verdicts = @ \cup {last'.verdict}]

RoundWriteNested ==
    /\ Within
    /\ \E k \in Keys, t \in NestedTokens : writeNested(track.field, k, t)
    /\ track' = [track EXCEPT !.verdicts = @ \cup {last'.verdict}]

RoundUnregister ==
    /\ track.phase = "open" /\ ops < MaxRoundOps
    /\ unregister(track.field)
    /\ track' = [track EXCEPT !.phase = "closed"]

RoundNext ==
    \/ BeforeRegister
    \/ BeforeUnregister
    \/ BeforeWrite
    \/ BeforeWriteNested
    \/ BeforeUndo
    \/ BeforeRedo
    \/ RoundRegister
    \/ RoundWrite
    \/ RoundWriteNested
    \/ RoundUnregister

SpecRound == RoundInit /\ [][RoundNext]_vars

\* ---------------- SpecDepth: writes at every depth of a field, no callbacks
\* The values written include an object whose id is not a number, which
\* stays in state when it is written before system has a rule.
DepthRegistrations ==
    {<<"system", "object", ObjSeq("0", "test", "0")>>,
     <<"system", "object", Scalar("test")>>,
     <<"workspace", "number", Scalar("0")>>}
DepthWrites ==
    {<<"system", ObjSeq("test", "test", "0")>>, <<"system", Obj("1", "test")>>,
     <<"workspace", Scalar("1")>>, <<"workspace", Scalar("test")>>}
DepthTokens == {"1", "test"}

DepthInit ==
    /\ Joistor(WithBuffer(MaxBuffer))
    /\ track = <<>>

CanWrite == ops < MaxDepthOps /\ UNCHANGED track

DepthRegister == CanWrite /\ \E r \in DepthRegistrations : register(r[1], r[2], r[3])
DepthUnregister == CanWrite /\ unregister("system")
DepthWrite == CanWrite /\ \E w \in DepthWrites : write(w[1], w[2])
DepthWriteNested ==
    CanWrite /\ \E k \in Keys, t \in DepthTokens : writeNested("system", k, t)
DepthWriteDeep == CanWrite /\ \E t \in DepthTokens : writeDeep("system", Sequence, "0", t)
DepthUndo == CanWrite /\ undo
DepthRedo == CanWrite /\ redo

DepthNext ==
    \/ DepthRegister
    \/ DepthUnregister
    \/ DepthWrite
    \/ DepthWriteNested
    \/ DepthWriteDeep
    \/ DepthUndo
    \/ DepthRedo

SpecDepth == DepthInit /\ [][DepthNext]_vars

\* ------------- SpecReport: writes at every depth on a store with error callbacks
ReportInit ==
    /\ Joistor(WithBuffer(MaxBuffer))
    /\ track = <<>>

CanReport == ops < MaxReportOps /\ UNCHANGED track

ReportOnError ==
    /\ Subscriptions < MaxReportSubscriptions /\ UNCHANGED track
    /\ \E cb \in Callbacks : onError(cb)
ReportRegister == CanReport /\ \E r \in DepthRegistrations : register(r[1], r[2], r[3])
ReportWrite == CanReport /\ \E w \in DepthWrites : write(w[1], w[2])
ReportWriteNested ==
    CanReport /\ \E k \in Keys, t \in DepthTokens : writeNested("system", k, t)
ReportWriteDeep == CanReport /\ \E t \in DepthTokens : writeDeep("system", Sequence, "0", t)

ReportNext ==
    \/ ReportOnError
    \/ ReportRegister
    \/ ReportWrite
    \/ ReportWriteNested
    \/ ReportWriteDeep

SpecReport == ReportInit /\ [][ReportNext]_vars

\* ------------- SpecReentrant: change callbacks that write to another field
\* The writing callbacks are subscribed to system and write workspace.  (A
\* callback that writes the field it is subscribed to calls itself until the
\* stack overflows; no such subscription is made here.)
ReentrantRegistrations ==
    {<<"workspace", "number", Scalar("0")>>, <<"system", "number", Scalar("0")>>}
ReentrantWrites ==
    {<<"system", Scalar("1")>>, <<"system", Scalar("test")>>, <<"workspace", Scalar("0")>>}
ReentrantChanges == {<<"system", "one">>, <<"system", "text">>, <<"workspace", "a">>}

ReentrantInit ==
    /\ Joistor(WithBuffer(MaxBuffer))
    /\ track = <<>>

CanReenter == ops < MaxReentrantOps /\ UNCHANGED track

ReentrantOnChange ==
    /\ Subscriptions < MaxReentrantSubscriptions /\ UNCHANGED track
    /\ \E c \in ReentrantChanges : onChange(c[1], c[2])
ReentrantRegister ==
    CanReenter /\ \E r \in ReentrantRegistrations : register(r[1], r[2], r[3])
ReentrantUnregister == CanReenter /\ unregister("workspace")
ReentrantWrite == CanReenter /\ \E w \in ReentrantWrites : write(w[1], w[2])
ReentrantUndo == CanReenter /\ undo
ReentrantRedo == CanReenter /\ redo

ReentrantNext ==
    \/ ReentrantOnChange
    \/ ReentrantRegister
    \/ ReentrantUnregister
    \/ ReentrantWrite
    \/ ReentrantUndo
    \/ ReentrantRedo

SpecReentrant == ReentrantInit /\ [][ReentrantNext]_vars

\* ----------------------------- SpecLaw: registrations, writes, undos, redos
\* track follows one run of the shape: register fields, n accepted writes,
\* k <= n calls of undo(), then calls of redo(); target is the state after
\* the writes.
LawInit ==
    /\ \E n \in BufferSizes : Joistor(WithBuffer(n))
    /\ track = [phase |-> "register", n |-> 0, k |-> 0, j |-> 0, target |-> EmptyState]

Written ==
    /\ last'.verdict = "accepted"
    /\ track' = [track EXCEPT !.phase = "write", !.n = @ + 1, !.target = state']

LawRegister ==
    /\ ops < MaxLawOps /\ track.phase = "register"
    /\ AnyRegister /\ UNCHANGED track
LawWrite ==
    /\ ops < MaxLawOps /\ track.phase \in {"register", "write"}
    /\ AnyWrite /\ Written
LawWriteNested ==
    /\ ops < MaxLawOps /\ track.phase \in {"register", "write"}
    /\ AnyWriteNested /\ Written
LawUndo ==
    /\ ops < MaxLawOps /\ track.phase \in {"write", "undo"} /\ track.k < track.n
    /\ undo /\ track' = [track EXCEPT !.phase = "undo", !.k = @ + 1]
LawRedo ==
    /\ ops < MaxLawOps /\ track.phase \in {"undo", "redo"} /\ track.j < track.k
    /\ redo /\ track' = [track EXCEPT !.phase = "redo", !.j = @ + 1]

LawNext ==
    \/ LawRegister
    \/ LawWrite
    \/ LawWriteNested
    \/ LawUndo
    \/ LawRedo

SpecLaw == LawInit /\ [][LawNext]_vars

\* ------------------------- SpecFifo: any operations, streaks of writes kept
\* track holds the pre-write snapshots of the accepted writes made since the
\* last operation that was not an accepted write.
Streak ==
    track' = IF last'.op \in {"write", "writeNested"} /\ last'.verdict = "accepted"
             THEN Append(track, JsonCopy(state))
             ELSE <<>>

FifoRegister == ops < MaxFifoOps /\ AnyRegister /\ Streak
FifoUnregister == ops < MaxFifoOps /\ AnyUnregister /\ Streak
FifoWrite == ops < MaxFifoOps /\ AnyWrite /\ Streak
FifoWriteNested == ops < MaxFifoOps /\ AnyWriteNested /\ Streak
FifoUndo == ops < MaxFifoOps /\ undo /\ Streak
FifoRedo == ops < MaxFifoOps /\ redo /\ Streak

FifoNext ==
    \/ FifoRegister
    \/ FifoUnregister
    \/ FifoWrite
    \/ FifoWriteNested
    \/ FifoUndo
    \/ FifoRedo

SpecFifo == Init /\ [][FifoNext]_vars

\* ------------------ SpecDefault: stores constructed without a historyBuffer
\* One numeric field, registered first; each write changes its value.
DefaultInit ==
    /\ Joistor(DefaultOpts) \/ Joistor(ErrorLogOnly)
    /\ track = <<>>

DefaultRegister ==
    /\ ops = 0
    /\ register("workspace", "number", Scalar("0")) /\ UNCHANGED track
DefaultWrite ==
    /\ ops < MaxDefaultOps
    /\ \E v \in {Scalar("0"), Scalar("1")} :
          v # Get(state, "workspace") /\ write("workspace", v)
    /\ UNCHANGED track
DefaultUndo == ops < MaxDefaultOps /\ undo /\ UNCHANGED track
DefaultRedo == ops < MaxDefaultOps /\ redo /\ UNCHANGED track

DefaultNext ==
    \/ DefaultRegister
    \/ DefaultWrite
    \/ DefaultUndo
    \/ DefaultRedo

SpecDefault == DefaultInit /\ [][DefaultNext]_vars

\* ------------------------------------------------------------------ claims
Front(s) == SubSeq(s, 1, Len(s) - 1)
Top(s) == s[Len(s)]
SameData(a, b) == KeySet(a) = KeySet(b) /\ a.val = b.val
IsUserWrite(l) == l.op \in {"write", "writeNested"}

\* C1: a top-level write that the rule of a field present in state rejects
\* leaves the field in state with exactly its pre-write value.
C1_RejectedWriteKeepsValue ==
    [][(last'.op = "write" /\ last'.verdict = "rejected" /\ Has(state, last'.field))
        => /\ Has(state', last'.field)
           /\ Get(state', last'.field) = Get(state, last'.field)]_vars

\* C2: undo() on a non-empty undo ledger removes exactly the most recent undo
\* entry, appends a snapshot of the live state before the call to the redo
\* ledger and leaves live state equal to the removed entry.
C2_UndoRestoresTopEntry ==
    [][(last'.op = "undo" /\ Len(history.undo) > 0)
        => /\ history'.undo = Front(history.undo)
           /\ history'.redo = Append(history.redo, JsonCopy(state))
           /\ SameData(state', Top(history.undo))]_vars

\* C3: redo() on a non-empty redo ledger removes exactly the most recent redo
\* entry, appends a snapshot of the live state before the call to the undo
\* ledger (evicting the oldest entry beyond capacity) and leaves live state
\* equal to the removed entry.
C3_RedoRestoresTopEntry ==
    [][(last'.op = "redo" /\ Len(history.redo) > 0)
        => /\ history'.redo = Front(history.redo)
           /\ history'.undo =
                 LET pushed == Append(history.undo, JsonCopy(state))
                 IN IF Len(pushed) > opts.historyBuffer THEN Tail(pushed) ELSE pushed
           /\ SameData(state', Top(history.redo))]_vars

\* C4: after registrations and n accepted writes, k <= n calls of undo()
\* followed by k calls of redo() leave live state equal to the state after
\* the writes.
C4_UndoRedoInverse ==
    (track.phase = "redo" /\ track.j = track.k) => SameData(state, track.target)

\* C5: every accepted write raises len(undo) by one below historyBuffer, keeps
\* it at historyBuffer once reached, and leaves the redo ledger empty.
C5_AcceptedWriteRecordsHistory ==
    [][(IsUserWrite(last') /\ last'.verdict = "accepted")
        => /\ Len(history'.undo) = IF Len(history.undo) < opts.historyBuffer
                                   THEN Len(history.undo) + 1
                                   ELSE opts.historyBuffer
           /\ history'.redo = <<>>]_vars

\* C6: with historyBuffer = N neither ledger ever holds more than N entries.
C6_CapacityInvariant ==
    /\ Len(history.undo) <= opts.historyBuffer
    /\ Len(history.redo) <= opts.historyBuffer

\* an accepted write made with the undo ledger full left it full
C6_Witness ==
    /\ IsUserWrite(last) /\ last.verdict = "accepted"
    /\ last.undoLen = opts.historyBuffer
    /\ Len(history.undo) = opts.historyBuffer

\* C7: after m > N consecutive accepted writes the undo ledger is exactly the
\* N most recent pre-write snapshots, oldest first.
C7_FifoEviction ==
    Len(track) > opts.historyBuffer
        => history.undo = SubSeq(track, Len(track) - opts.historyBuffer + 1, Len(track))

\* C8: a store constructed without an explicit historyBuffer never holds more
\* than 20 entries in a ledger.
C8_DefaultCapacity ==
    /\ Len(history.undo) <= DefaultHistoryBuffer
    /\ Len(history.redo) <= DefaultHistoryBuffer

\* C9: a rejected write, top-level or nested, leaves both ledgers as they were.
C9_RejectedWriteKeepsLedgers ==
    [][(IsUserWrite(last') /\ last'.verdict = "rejected") => history' = history]_vars

\* a nested write was rejected while both ledgers held entries
C9_Witness ==
    /\ last.op = "writeNested" /\ last.verdict = "rejected"
    /\ last.undoLen > 0 /\ last.redoLen > 0
    /\ Len(history.undo) > 0 /\ Len(history.redo) > 0

\* C10: between operations the field names of state are exactly the field
\* names of schema.
C10_SchemaStateKeys ==
    KeySet(state) = {f \in Fields : schema[f] # NoRule}

\* the calls of one kind among those an operation made, and their callbacks
CallsOf(cs, kind) == SelectSeq(cs, LAMBDA c : c.kind = kind)
CallbacksIn(cs) == [i \in 1..Len(cs) |-> cs[i].callback]

\* C11: register(f, rule, v) with a default that satisfies the rule sets
\* schema[f] and state[f], and only then calls every register callback once,
\* in subscription order; the callbacks, and the caller afterwards, find f in
\* schema and state and every other field as it was.
C11_RegisterThenCallbacks ==
    [][\A r \in NotifyRegistrations :
         (register(r[1], r[2], r[3]) /\ RuleAccepts(r[2], r[3])) =>
            LET regs == CallsOf(calls', "register")
            IN  /\ schema'[r[1]] = r[2]
                /\ Has(state', r[1]) /\ Get(state', r[1]) = r[3]
                /\ \A g \in Fields \ {r[1]} :
                      /\ schema'[g] = schema[g]
                      /\ Has(state', g) = Has(state, g)
                      /\ Get(state', g) = Get(state, g)
                /\ CallbacksIn(regs) = onRegisterCallbacks
                /\ SubSeq(calls', Len(calls') - Len(regs) + 1, Len(calls')) = regs
                /\ \A i \in 1..Len(regs) :
                      regs[i].state = state' /\ regs[i].schema = schema']_vars

\* a second field was registered on a store with two register callbacks and
\* a change callback on that field
C11_Witness ==
    /\ last.op = "register" /\ last.field = "system" /\ last.verdict = "accepted"
    /\ Has(state, "workspace")
    /\ onRegisterCallbacks = <<"b", "a">>
    /\ Len(calls) = 3

\* C12: after register(f, rule, v), any writes to f, accepted or rejected, and
\* unregister(f), neither schema nor state has f, and every other field has
\* the rule and the value it had before the register.
C12_RegisterUnregisterRoundTrip ==
    track.phase = "closed" =>
        /\ schema[track.field] = NoRule
        /\ ~Has(state, track.field)
        /\ \A g \in Fields \ {track.field} :
              /\ schema[g] = track.schema[g]
              /\ Has(state, g) = Has(track.state, g)
              /\ Get(state, g) = Get(track.state, g)

\* a round on system with an accepted and a rejected write, while workspace
\* is registered
C12_Witness ==
    /\ track.phase = "closed" /\ track.field = "system"
    /\ {"accepted", "rejected"} \subseteq track.verdicts
    /\ Has(track.state, "workspace") /\ track.schema["workspace"] # NoRule

\* C13: a register call, of a new field or of a registered one, leaves the
\* undo and redo ledgers as they were.
C13_RegisterKeepsLedgers ==
    [][last'.op = "register" => history' = history]_vars

\* a field was registered again, its default accepted, while both ledgers
\* held entries
C13_Witness ==
    /\ last.op = "register" /\ last.verdict = "accepted"
    /\ last.undoLen > 0 /\ last.redoLen > 0
    /\ Len(history.undo) > 0 /\ Len(history.redo) > 0

IsWrite(l) == l.op \in {"write", "writeNested", "writeDeep"}
Count(s, x) == Cardinality({i \in 1..Len(s) : s[i] = x})

\* C14: register(f, ...) calls no change callback when it assigns the
\* default, whether or not callbacks were subscribed to f beforehand.
C14_RegisterFiresNoChange ==
    last.op = "register" => CallsOf(calls, "change") = <<>>

\* C15: an accepted write calls each change callback subscribed to the
\* written field once and no callback as a subscriber of another field; a
\* rejected write calls no change callback.
C15_ChangeOncePerCommit ==
    IsWrite(last) =>
        LET changes == CallsOf(calls, "change")
        IN  /\ last.verdict = "accepted" =>
                  /\ \A i \in 1..Len(changes) : changes[i].field = last.field
                  /\ \A cb \in Callbacks :
                        Count(CallbacksIn(changes), cb)
                            = Count(onChangeCallbacks[last.field], cb)
            /\ last.verdict = "rejected" => changes = <<>>

\* a write to system was accepted with two callbacks subscribed to system and
\* one to workspace
C15_Witness ==
    /\ last.op = "write" /\ last.field = "system" /\ last.verdict = "accepted"
    /\ Len(onChangeCallbacks["system"]) = 2
    /\ Len(onChangeCallbacks["workspace"]) = 1
    /\ Len(CallsOf(calls, "change")) = 2

\* C16: undo() and redo() call no change callback while they restore a
\* snapshot.
C16_ReplayFiresNoChange ==
    last.op \in {"undo", "redo"} => CallsOf(calls, "change") = <<>>

\* C17: the change callbacks of a field are called in the order they were
\* subscribed with onChange, and the error callbacks in the order they were
\* subscribed with onError.
C17_SubscriptionOrder ==
    (IsWrite(last) \/ last.op = "register") =>
        /\ last.verdict = "accepted" =>
              CallbacksIn(CallsOf(calls, "change")) = onChangeCallbacks[last.field]
        /\ last.verdict = "rejected" =>
              CallbacksIn(CallsOf(calls, "error")) = onErrorCallbacks

\* a nested write to system was accepted with b subscribed before a
C17_Witness ==
    /\ last.op = "writeNested" /\ last.verdict = "accepted"
    /\ onChangeCallbacks["system"] = <<"b", "a">>
    /\ Len(calls) = 2

\* the step wrote w at location at of field f, which has a rule: the write
\* is accepted exactly when the rule of f accepts the whole candidate value
\* of f, and an accepted write calls the callbacks subscribed to f, and only
\* them, with f as the field name
Transparent(f, at, w) ==
    (schema[f] # NoRule /\ last'.verdict # "nocontainer") =>
        LET candidate == WithSubValue(Get(state, f), at, w)
            accepted == RuleAccepts(schema[f], ReadValue(candidate))
            changes == CallsOf(calls', "change")
        IN  /\ last'.verdict = IF accepted THEN "accepted" ELSE "rejected"
            /\ CallbacksIn(changes) = IF accepted THEN onChangeCallbacks[f] ELSE <<>>
            /\ \A i \in 1..Len(changes) : changes[i].field = f

\* C18: a write to state[f], to a key of state[f] or to an element of an
\* array inside state[f] is validated against the rule of f and notifies the
\* change callbacks subscribed to f under the name f, never under the name of
\* a key on the way.
C18_DepthTransparency ==
    [][/\ \A w \in NotifyWrites :
             (last'.op = "write" /\ write(w[1], w[2])) => Transparent(w[1], <<>>, w[2])
       /\ \A t \in NotifyTokens :
             (last'.op = "writeNested" /\ writeNested("system", "id", t))
                 => Transparent("system", <<"id">>, Scalar(t))
       /\ \A t \in NotifyTokens :
             (last'.op = "writeDeep" /\ writeDeep("system", Sequence, "0", t))
                 => Transparent("system", Slot, Scalar(t))]_vars

\* an element of system.sequence was written and accepted with one callback
\* subscribed to system and one to the name sequence
C18_Witness ==
    /\ last.op = "writeDeep" /\ last.field = "system" /\ last.verdict = "accepted"
    /\ onChangeCallbacks["system"] # <<>>
    /\ onChangeCallbacks["sequence"] # <<>>
    /\ Len(CallsOf(calls, "change")) = Len(onChangeCallbacks["system"])

\* C19: undo() on an empty undo ledger and redo() on an empty redo ledger
\* change nothing: state, schema, both ledgers and updateHistory stay as they
\* were and no callback is called.
C19_EmptyLedgerNoOp ==
    [][(\/ last'.op = "undo" /\ Len(history.undo) = 0
        \/ last'.op = "redo" /\ Len(history.redo) = 0) =>
            /\ state' = state
            /\ schema' = schema
            /\ history' = history
            /\ updateHistory' = updateHistory
            /\ calls' = <<>>]_vars

\* undo() was called with nothing to undo on a store that records history,
\* holds a field and has callbacks subscribed
C19_Witness ==
    /\ last.op = "undo" /\ last.undoLen = 0
    /\ updateHistory
    /\ Has(state, "system")
    /\ Subscriptions > 0

\* C20: a write state[g] = v to a name g without a rule is rejected and does
\* nothing: g is not in state afterwards, every other field is as it was and
\* both ledgers are unchanged.
C20_UnknownFieldWriteNoOp ==
    [][(/\ last'.op = "write"
        /\ schema[last'.field] = NoRule
        /\ ~Has(state, last'.field)) =>
            /\ ~Has(state', last'.field)
            /\ \A g \in Fields \ {last'.field} :
                  Has(state', g) = Has(state, g) /\ Get(state', g) = Get(state, g)
            /\ history' = history]_vars

\* C21: a write that the rule of its field rejects calls every error callback
\* once; an accepted write calls no error callback.
C21_ErrorOncePerRejection ==
    IsWrite(last) =>
        LET errors == CallsOf(calls, "error")
        IN  /\ last.verdict = "rejected" =>
                  \A cb \in Callbacks \cup {Logger} :
                      Count(CallbacksIn(errors), cb) = Count(onErrorCallbacks, cb)
            /\ last.verdict = "accepted" => errors = <<>>

\* an element of system.sequence was written and rejected with two error
\* callbacks subscribed besides the logger
C21_Witness ==
    /\ last.op = "writeDeep" /\ last.verdict = "rejected"
    /\ Len(onErrorCallbacks) = 3
    /\ Len(CallsOf(calls, "error")) = 3

\* the entry undo() or redo() is about to restore
Popped(op) == IF op = "undo" THEN Top(history.undo) ELSE Top(history.redo)
IsReplay(l) == l.op \in {"undo", "redo"} /\ l.verdict # "noop"

\* C22: undo() and redo() raise the field-set-mismatch error whenever the
\* field names of the entry to restore differ from those of live state,
\* whichever of the two has the extra field.
C22_MismatchDetected ==
    [][(IsReplay(last') /\ KeySet(Popped(last'.op)) # KeySet(state))
        => last'.verdict = "mismatch"]_vars

\* C23: when undo() or redo() raises the field-set-mismatch error, every
\* field of state and both ledgers are as they were before the call.
C23_MismatchAbortsAtomically ==
    [][(IsReplay(last') /\ last'.verdict = "mismatch")
        => state' = state /\ history' = history]_vars

\* C24: unregister(f) leaves both ledgers unchanged and, as long as f is not
\* registered again, no undo() or redo() brings f back into state.
C24_UnregisteredStaysGone ==
    [][/\ last'.op = "unregister" => history' = history
       /\ (last.op = "unregister" /\ last'.op \in {"undo", "redo"})
             => ~Has(state', last.field)]_vars

\* C25: a rejected write to key p of a container inside field f leaves p with
\* its previous value when it had one and removes p when the write introduced
\* it; every other key, the rest of f and all other fields are unchanged.
C25_NestedRollback ==
    [][(last'.op = "writeNested" /\ last'.verdict = "rejected") => state' = state]_vars

\* the step wrote w at location at of field f, which has a rule
Revalidated(f, at, w) ==
    (schema[f] # NoRule /\ last'.verdict # "nocontainer") =>
        (last'.verdict = "accepted"
            <=> RuleAccepts(schema[f], WithSubValue(Get(state, f), at, w)))

\* C26: a write to a key of field f, or to an element of an array inside f,
\* is accepted exactly when the whole value of f after the write satisfies
\* the rule of f; a write of an acceptable value is rejected when another
\* part of f breaks the rule.
C26_WholeFieldRevalidation ==
    [][/\ \A k \in Keys, t \in DepthTokens :
             (last'.op = "writeNested" /\ writeNested("system", k, t))
                 => Revalidated("system", <<k>>, Scalar(t))
       /\ \A t \in DepthTokens :
             (last'.op = "writeDeep" /\ writeDeep("system", Sequence, "0", t))
                 => Revalidated("system", Slot, Scalar(t))]_vars

\* system holds an object whose id is not a number, and a number written to
\* an element of its sequence array was rejected
C26_Witness ==
    /\ last.op = "writeDeep" /\ last.verdict = "rejected"
    /\ schema["system"] = "object"
    /\ Get(state, "system")[<<"id">>] = "test"
    /\ CallsOf(calls, "error")[1].state.val["system"][Slot] = "1"

\* C27: the entry an accepted write pushes to the undo ledger equals, value
\* for value, the whole state as it was just before the write.
C27_SnapshotIsPriorState ==
    [][(IsUserWrite(last') /\ last'.verdict = "accepted" /\ updateHistory)
        => SameData(Top(history'.undo), state)]_vars

\* C28: undo() and redo() restore every field of the popped entry without
\* consulting a rule: when the entry and live state have the same registered
\* fields, each field holds the entry's value after the call, whether or not
\* the rule now registered for it accepts that value.
C28_ReplayBypassesValidation ==
    [][(/\ IsReplay(last')
        /\ KeySet(Popped(last'.op)) = KeySet(state)
        /\ \A f \in KeySet(state) : schema[f] # NoRule)
        => \A f \in KeySet(state) :
              Has(state', f) /\ Get(state', f) = Popped(last'.op).val[f]]_vars

\* the step wrote w at location at of field f and the write was accepted:
\* the location holds w, every other location of f and every other field is
\* as before, and so is schema
Framed(f, at, w) ==
    last'.verdict = "accepted" =>
        /\ Has(state', f)
        /\ \A q \in Paths :
              Get(state', f)[q] = IF IsPrefix(at, q) THEN w[Suffix(at, q)]
                                  ELSE Get(state, f)[q]
        /\ \A g \in Fields \ {f} :
              Has(state', g) = Has(state, g) /\ Get(state', g) = Get(state, g)
        /\ schema' = schema

\* C29: an accepted write to a location inside field f changes that location
\* to the written value and nothing else in state or schema.
C29_AcceptedWriteFrame ==
    [][/\ \A w \in DepthWrites :
             (last'.op = "write" /\ write(w[1], w[2])) => Framed(w[1], <<>>, w[2])
       /\ \A k \in Keys, t \in DepthTokens :
             (last'.op = "writeNested" /\ writeNested("system", k, t))
                 => Framed("system", <<k>>, Scalar(t))
       /\ \A t \in DepthTokens :
             (last'.op = "writeDeep" /\ writeDeep("system", Sequence, "0", t))
                 => Framed("system", Slot, Scalar(t))]_vars

\* an element of system.sequence was written and accepted while workspace
\* held a value
C29_Witness ==
    /\ last.op = "writeDeep" /\ last.verdict = "accepted"
    /\ Has(state, "workspace")
    /\ Get(state, "system")[<<"name">>] = "test"

\* C30: in every reachable state each field present in state that has a rule
\* holds a value that the rule accepts.
C30_LiveStateValid ==
    \A f \in KeySet(state) :
        schema[f] # NoRule => RuleAccepts(schema[f], ReadValue(Get(state, f)))

\* C31: with historyBuffer = N the two ledgers together never hold more than
\* N entries, so the push to the redo ledger in undo() never evicts: the redo
\* ledger after undo() is the one before it, with at most one entry appended.
C31_CombinedLedgerBound ==
    /\ [](Len(history.undo) + Len(history.redo) <= opts.historyBuffer)
    /\ [][last'.op = "undo" => IsPrefix(history.redo, history'.redo)]_vars

\* undo() was called with both ledgers holding entries and the two together
\* at capacity
C31_Witness ==
    /\ last.op = "undo" /\ last.verdict = "done"
    /\ last.undoLen > 0 /\ last.redoLen > 0
    /\ last.undoLen + last.redoLen = opts.historyBuffer
    /\ Len(history.redo) = last.redoLen + 1

\* C32: register ends with the store recording history, and every operation
\* called on a store that records history ends, whether it returns or throws,
\* with the store recording history.
C32_ReplayModeNeverLeaks ==
    [][(last'.op = "register" \/ updateHistory) => updateHistory']_vars

\* the step wrote w at location at of field f: every error callback was
\* called, and each found state with w at the location written
Reported(f, at, w) ==
    LET errors == CallsOf(calls', "error")
    IN  /\ CallbacksIn(errors) = onErrorCallbacks
        /\ \A i \in 1..Len(errors) :
              errors[i].state = Put(state, f, WithSubValue(Get(state, f), at, w))

Rejected(op, f) == last'.op = op /\ last'.field = f /\ last'.verdict = "rejected"

\* C33: when a write, or the assignment of a default by register, is
\* rejected, the error callbacks are called before the value is reverted: the
\* state each of them is passed, the last one included, holds the rejected
\* value at the written location.
C33_ErrorBeforeRollback ==
    [][/\ \A w \in DepthWrites :
             (Rejected("write", w[1]) /\ write(w[1], w[2]))
                 => Reported(w[1], <<>>, w[2])
       /\ \A r \in DepthRegistrations :
             (Rejected("register", r[1]) /\ register(r[1], r[2], r[3]))
                 => Reported(r[1], <<>>, r[3])
       /\ \A k \in Keys, t \in DepthTokens :
             (Rejected("writeNested", "system") /\ writeNested("system", k, t))
                 => Reported("system", <<k>>, Scalar(t))
       /\ \A t \in DepthTokens :
             (Rejected("writeDeep", "system") /\ writeDeep("system", Sequence, "0", t))
                 => Reported("system", Slot, Scalar(t))]_vars

\* a write to system was rejected with two error callbacks subscribed besides
\* the logger, and the last of them found a value that state no longer holds
C33_Witness ==
    /\ last.op = "write" /\ last.field = "system" /\ last.verdict = "rejected"
    /\ Len(onErrorCallbacks) = 3
    /\ Len(CallsOf(calls, "error")) = 3
    /\ Get(CallsOf(calls, "error")[3].state, "system") # Get(state, "system")

\* the callbacks subscribed to field f that write, and a ledger after a push
WritersOn(f) == SelectSeq(onChangeCallbacks[f], LAMBDA c : c \in Writers)
Pushed(s, e) ==
    LET pushed == Append(s, e)
    IN IF Len(pushed) > opts.historyBuffer THEN Tail(pushed) ELSE pushed

\* one writing callback is subscribed to system, and the field it writes has
\* a rule
OneWriter == Len(WritersOn("system")) = 1 /\ schema[WriterField] # NoRule
InnerValue == WriterValue(WritersOn("system")[1])
InnerAccepted == RuleAccepts(schema[WriterField], InnerValue)

\* the write of the callback was validated: its value is in state after the
\* step exactly when the rule accepts it
InnerValidated ==
    IF InnerAccepted
    THEN Has(state', WriterField) /\ Get(state', WriterField) = InnerValue
    ELSE Get(state', WriterField) # InnerValue

\* C34: a write made by a change callback during an accepted write on a
\* recording store is validated and, when accepted, pushes its own undo entry,
\* the state after the outer write, on top of the outer write's entry; a write
\* made by a change callback while register, undo or redo assigns state is
\* validated and committed, pushes no undo entry and leaves the redo ledger
\* uncleared.
C34_ReentrantWrites ==
    [][/\ \A w \in ReentrantWrites :
             (/\ last'.op = "write" /\ last'.field = "system"
              /\ last'.verdict = "accepted"
              /\ w[1] = "system" /\ updateHistory /\ OneWriter
              /\ write(w[1], w[2])) =>
                 LET entry == JsonCopy(state)
                     inner == JsonCopy(Put(state, "system", w[2]))
                 IN  /\ Get(state', "system") = w[2]
                     /\ InnerValidated
                     /\ history'.redo = <<>>
                     /\ history'.undo =
                           IF InnerAccepted
                           THEN Pushed(Pushed(history.undo, entry), inner)
                           ELSE Pushed(history.undo, entry)
       /\ (/\ last'.op = "register" /\ last'.field = "system"
           /\ last'.verdict = "accepted" /\ OneWriter) =>
              /\ InnerValidated
              /\ history' = history
       /\ (/\ IsReplay(last') /\ last'.verdict = "done"
           /\ updateHistory /\ OneWriter) =>
              LET entry == Popped(last'.op)
                  saved == JsonCopy(state)
              IN  /\ last'.op = "undo" =>
                        /\ history'.undo = Front(history.undo)
                        /\ history'.redo = Pushed(history.redo, saved)
                  /\ last'.op = "redo" =>
                        /\ history'.redo = Front(history.redo)
                        /\ history'.undo = Pushed(history.undo, saved)
                  /\ (/\ entry.keys # <<>> /\ Top(entry.keys) = "system"
                      /\ schema["system"] # NoRule
                      /\ RuleAccepts(schema["system"], entry.val["system"]))
                        => InnerValidated]_vars

\* undo() was called after a write whose callback pushed a second entry, and
\* the callback wrote workspace again while the entry was restored
C34_Witness ==
    /\ last.op = "undo" /\ last.verdict = "done"
    /\ last.undoLen = 2 /\ last.redoLen = 0
    /\ WritersOn("system") = <<"one">>
    /\ Len(history.undo) = 1 /\ Len(history.redo) = 1
    /\ Top(history.undo).val["workspace"] = Scalar("0")
    /\ Get(state, "workspace") = Scalar("1")

====
